---- MODULE Spec2Model ----
(***************************************************************************)
(* A model of amap_weather.py: the administrative-code index built at      *)
(* import time (city_code_data), the weather gateway (make_amap_request),  *)
(* the response normalizer (format_weather_info) and the operations the    *)
(* server registers (get_lives, get_forecast, get_city_code,               *)
(* get_city_code_by_cityname, llm_prompt).                                 *)
(*                                                                         *)
(* Python str values are modelled as sequences of characters (names,       *)
(* codes, lookup arguments) or as sequences of tokens (formatted reports). *)
(* The Chinese labels of the report templates are written as ASCII tokens  *)
(* of the same position, e.g. "region:" for the label of line 78.          *)
(***************************************************************************)
EXTENDS Naturals, Sequences, FiniteSets

VARIABLES
    main,           \* position of the module-level code: "building" (line 52) or "serving" (line 198)
    df,             \* the rows of AMap_adcode_citycode.xlsx as read at line 22-23
    pos,            \* index into df of the row the loop of line 27 processes next
    province,       \* local of city_code_data (line 25)
    city,           \* local of city_code_data (line 26)
    city_map,       \* local of city_code_data (line 24)
    CITY_CODE_MAP,  \* the module constant of line 52
    calls,          \* the weather-query coroutines in progress, one per slot
    last            \* the last completed synchronous operation and what it returned

vars == <<main, df, pos, province, city, city_map, CITY_CODE_MAP, calls, last>>

(***************************************************************************)
(* Bounds of the model.                                                    *)
(***************************************************************************)
MaxRows == 4        \* rows of the table after its first row
MaxLives == 2       \* entries of a payload's "lives" array
MaxCasts == 2       \* entries of a forecast's "casts" array

(***************************************************************************)
(* Python values.                                                          *)
(***************************************************************************)
None == [t |-> "None"]
Str(s) == [t |-> "str", s |-> s]
Raised(e) == [t |-> "raise", exc |-> e]

Max(a, b) == IF a >= b THEN a ELSE b

\* s[n:] for n >= 0
SliceFrom(s, n) == SubSeq(s, n + 1, Len(s))

\* s[-n:] for n > 0
SliceLast(s, n) == SubSeq(s, Max(1, Len(s) - n + 1), Len(s))

(***************************************************************************)
(* The code table builder, city_code_data.                                 *)
(***************************************************************************)
EmptyMap == << >>

\* city_map[key] = value on a dict: insert, or overwrite the value of a key already there
SetItem(m, key, value) ==
    [k \in (DOMAIN m) \cup {key} |-> IF k = key THEN value ELSE m[k]]

\* dict.get(key, default)
Get(m, key, default) == IF key \in DOMAIN m THEN m[key] ELSE default

\* the state of the loop before its first row (lines 24-26)
LoopStart == [province |-> << >>, city |-> << >>, city_map |-> EmptyMap]

\* A variant of the loop body that keeps the city of the previous province.
LoopBody_NoCityReset(st, row) ==
    LET city_name == row.name
        ad_code == row.ad_code
    IN  IF SliceFrom(ad_code, 2) = <<"0", "0", "0", "0">>
        THEN [province |-> city_name,
              city |-> st.city,
              city_map |-> SetItem(st.city_map, city_name, ad_code)]
        ELSE IF SliceLast(ad_code, 2) = <<"0", "0">>
        THEN [province |-> st.province,
              city |-> city_name,
              city_map |-> SetItem(st.city_map, st.province \o city_name, ad_code)]
        ELSE [province |-> st.province,
              city |-> st.city,
              city_map |-> SetItem(st.city_map, st.province \o st.city \o city_name, ad_code)]

\* A variant of the loop body that keeps the first code inserted for a key.
LoopBody_FirstWins(st, row) ==
    LET city_name == row.name
        ad_code == row.ad_code
        put(m, k) == IF k \in DOMAIN m THEN m ELSE SetItem(m, k, ad_code)
    IN  IF SliceFrom(ad_code, 2) = <<"0", "0", "0", "0">>
        THEN [province |-> city_name,
              city |-> << >>,
              city_map |-> put(st.city_map, city_name)]
        ELSE IF SliceLast(ad_code, 2) = <<"0", "0">>
        THEN [province |-> st.province,
              city |-> city_name,
              city_map |-> put(st.city_map, st.province \o city_name)]
        ELSE [province |-> st.province,
              city |-> st.city,
              city_map |-> put(st.city_map, st.province \o st.city \o city_name)]

\* one iteration of the loop of lines 27-37 on one row
LoopBody(st, row) ==
    LET city_name == row.name
        ad_code == row.ad_code
    IN  IF SliceFrom(ad_code, 2) = <<"0", "0", "0", "0">>
        THEN [province |-> city_name,
              city |-> << >>,
              city_map |-> SetItem(st.city_map, city_name, ad_code)]
        ELSE IF SliceLast(ad_code, 2) = <<"0", "0">>
        THEN [province |-> st.province,
              city |-> city_name,
              city_map |-> SetItem(st.city_map, st.province \o city_name, ad_code)]
        ELSE [province |-> st.province,
              city |-> st.city,
              city_map |-> SetItem(st.city_map, st.province \o st.city \o city_name, ad_code)]

RECURSIVE LoopOver(_, _)
LoopOver(st, rows) ==
    IF rows = << >> THEN st ELSE LoopOver(LoopBody(st, Head(rows)), Tail(rows))

\* city_code_data on a table: the loop runs over df.values[1:], every row but the first
city_code_data(table) == LoopOver(LoopStart, Tail(table)).city_map

(***************************************************************************)
(* The tables the builder is run on.  A row is (city_name, ad_code,        *)
(* city_code) as unpacked at line 28; every cell is a str (dtype='str',    *)
(* fillna('')).  The first row of the sheet is the nation's, which the     *)
(* loop skips (df.values[1:]).                                             *)
(***************************************************************************)
Names == {<<"G">>, <<"W">>}

ProvinceCode == <<"1", "1", "0", "0", "0", "0">>
CityCode == <<"1", "1", "0", "1", "0", "0">>
DistrictCode == <<"1", "1", "0", "1", "0", "1">>
Codes == {ProvinceCode, CityCode, DistrictCode}

Rows == [name : Names, ad_code : Codes, city_code : {<< >>}]

NationRow == [name |-> <<"C", "N">>, ad_code |-> <<"1", "0", "0", "0", "0", "0">>, city_code |-> << >>]

Tables(n) == {<<NationRow>> \o rows : rows \in UNION {[1..k -> Rows] : k \in 0..n}}

\* the table of the worked example: a province, its city, the city's district
SampleTable ==
    <<NationRow,
      [name |-> <<"G">>, ad_code |-> ProvinceCode, city_code |-> << >>],
      [name |-> <<"W">>, ad_code |-> CityCode, city_code |-> << >>],
      [name |-> <<"G">>, ad_code |-> DistrictCode, city_code |-> << >>]>>

\* a second table: a district that directly follows the second province
OtherTable ==
    <<NationRow,
      [name |-> <<"G">>, ad_code |-> ProvinceCode, city_code |-> << >>],
      [name |-> <<"W">>, ad_code |-> CityCode, city_code |-> << >>],
      [name |-> <<"W">>, ad_code |-> ProvinceCode, city_code |-> << >>],
      [name |-> <<"G">>, ad_code |-> DistrictCode, city_code |-> << >>]>>

(***************************************************************************)
(* urllib.parse.unquote on an ASCII str: each "%" followed by two hex      *)
(* digits becomes the character of that byte; any other "%" is kept.       *)
(***************************************************************************)
HexDigits == {"2", "4", "5", "7"}

HexVal(c) == CASE c = "2" -> 2 [] c = "4" -> 4 [] c = "5" -> 5 [] c = "7" -> 7

\* chr(n) for the bytes two digits of HexDigits can spell
Chr(n) ==
    CASE n = 34 -> "\"" [] n = 36 -> "$" [] n = 37 -> "%" [] n = 39 -> "'"
      [] n = 66 -> "B" [] n = 68 -> "D" [] n = 69 -> "E" [] n = 71 -> "G"
      [] n = 82 -> "R" [] n = 84 -> "T" [] n = 85 -> "U" [] n = 87 -> "W"
      [] n = 114 -> "r" [] n = 116 -> "t" [] n = 117 -> "u" [] n = 119 -> "w"

RECURSIVE unquote(_)
unquote(s) ==
    IF s = << >> THEN << >>
    ELSE IF s[1] = "%" /\ Len(s) >= 3 /\ s[2] \in HexDigits /\ s[3] \in HexDigits
         THEN <<Chr(16 * HexVal(s[2]) + HexVal(s[3]))>> \o unquote(SubSeq(s, 4, Len(s)))
         ELSE <<s[1]>> \o unquote(Tail(s))

\* the city_name arguments the resource city://{city_name} is read with
LookupArgs ==
    {<<"G">>, <<"G", "W">>, <<"G", "W", "G">>,
     <<"%", "4", "7">>, <<"G", "%", "5", "7">>,
     <<"%", "4">>, <<"%", "2", "5", "4", "7">>, <<"B">>}

(***************************************************************************)
(* The response normalizer, format_weather_info.  A dict is a function     *)
(* from its keys; d.get(k) is None for a key that is not there, and an     *)
(* f-string writes None as "None".  A report is a sequence of tokens: a    *)
(* label, a field's value, " ", "\n" or the separator "---".               *)
(***************************************************************************)
FieldGet(d, k) == IF k \in DOMAIN d THEN d[k] ELSE "None"

IsSpace(tok) == tok \in {" ", "\n"}

\* str.strip(): the leading and the trailing whitespace removed
RECURSIVE LStrip(_)
LStrip(s) == IF s # << >> /\ IsSpace(Head(s)) THEN LStrip(Tail(s)) ELSE s

RECURSIVE RStrip(_)
RStrip(s) == IF s # << >> /\ IsSpace(s[Len(s)]) THEN RStrip(SubSeq(s, 1, Len(s) - 1)) ELSE s

Strip(s) == RStrip(LStrip(s))

\* sep.join(list) for a list of token sequences
RECURSIVE Join(_, _)
Join(sep, list) ==
    IF list = << >> THEN << >>
    ELSE IF Len(list) = 1 THEN list[1]
    ELSE list[1] \o <<sep>> \o Join(sep, Tail(list))

\* the f-string of lines 77-85, before strip()
LivesText(weather) ==
    <<"\n",
      "region:", FieldGet(weather, "province"), " ", FieldGet(weather, "city"), "\n",
      "weather:", FieldGet(weather, "weather"), "\n",
      "temperature:", FieldGet(weather, "temperature"), "degrees Celsius", "\n",
      "winddirection:", FieldGet(weather, "winddirection"), "\n",
      "windpower:", FieldGet(weather, "windpower"), "level", "\n",
      "humidity:", FieldGet(weather, "humidity"), "\n",
      "reporttime:", FieldGet(weather, "reporttime"), "\n">>

\* the f-string of lines 89-92
ForecastHeader(weather_info) ==
    <<"\n",
      "region:", FieldGet(weather_info, "province"), " ", FieldGet(weather_info, "city"), "\n",
      "forecast reporttime:", FieldGet(weather_info, "reporttime"), "\n">>

\* the f-string of lines 96-106
CastText(weather) ==
    <<"\n",
      "date:", FieldGet(weather, "date"), " ", "weekday", FieldGet(weather, "week"), "\n",
      "dayweather:", FieldGet(weather, "dayweather"), "\n",
      "nightweather:", FieldGet(weather, "nightweather"), "\n",
      "daytemp:", FieldGet(weather, "daytemp"), "\n",
      "nighttemp:", FieldGet(weather, "nighttemp"), "\n",
      "daywind:", FieldGet(weather, "daywind"), "\n",
      "nightwind:", FieldGet(weather, "nightwind"), "\n",
      "daypower:", FieldGet(weather, "daypower"), "level", "\n",
      "nightpower:", FieldGet(weather, "nightpower"), "level", "\n">>

\* content_list of lines 88-107: the header, then one block per entry of casts
ContentList(weather_info) ==
    <<ForecastHeader(weather_info)>>
        \o [n \in 1..Len(weather_info.casts) |-> CastText(weather_info.casts[n])]

\* A variant that formats the last entry of "lives" (a loop without the early return).
format_weather_info_LastLive(response) ==
    IF "lives" \in DOMAIN response
    THEN IF response.lives = << >>
         THEN None
         ELSE Str(Strip(LivesText(response.lives[Len(response.lives)])))
    ELSE IF "forecasts" \notin DOMAIN response
         THEN Raised("AttributeError")
         ELSE Str(Strip(Join("---", ContentList(response.forecasts))))

\* A variant whose loop over casts stops one entry early.
format_weather_info_DropsLastCast(response) ==
    IF "lives" \in DOMAIN response
    THEN IF response.lives = << >>
         THEN None
         ELSE Str(Strip(LivesText(response.lives[1])))
    ELSE IF "forecasts" \notin DOMAIN response
         THEN Raised("AttributeError")
         ELSE LET wi == response.forecasts
                  kept == [wi EXCEPT !.casts = SubSeq(wi.casts, 1, Len(wi.casts) - 1)]
              IN  Str(Strip(Join("---", ContentList(kept))))

\* format_weather_info, lines 72-108.  With "lives" there, the loop of line 76
\* returns at its first entry, and with no entry the function falls off its end
\* and returns None.  Without "lives", response.get('forecasts') is None when
\* that key is not there either, and None.get raises AttributeError.
format_weather_info(response) ==
    IF "lives" \in DOMAIN response
    THEN IF response.lives = << >>
         THEN None
         ELSE Str(Strip(LivesText(response.lives[1])))
    ELSE IF "forecasts" \notin DOMAIN response
         THEN Raised("AttributeError")
         ELSE Str(Strip(Join("---", ContentList(response.forecasts))))

(***************************************************************************)
(* The payloads the provider answers with.                                 *)
(***************************************************************************)
Live1 ==
    [province |-> "Beijing", city |-> "Beijing City", weather |-> "sunny",
     temperature |-> "20", winddirection |-> "east", windpower |-> "3",
     humidity |-> "40", reporttime |-> "2025-01-01 12:00"]

\* an entry without "humidity"
Live2 ==
    [province |-> "Guangdong", city |-> "Tianhe", weather |-> "rain",
     temperature |-> "28", winddirection |-> "south", windpower |-> "4",
     reporttime |-> "2025-01-02 08:00"]

LiveEntries == {Live1, Live2}

Cast1 ==
    [date |-> "2025-01-01", week |-> "3", dayweather |-> "sunny", nightweather |-> "cloudy",
     daytemp |-> "20", nighttemp |-> "10", daywind |-> "east", nightwind |-> "north",
     daypower |-> "3", nightpower |-> "2"]

\* an entry without "nightwind"
Cast2 ==
    [date |-> "2025-01-02", week |-> "4", dayweather |-> "rain", nightweather |-> "rain",
     daytemp |-> "18", nighttemp |-> "9", daywind |-> "south",
     daypower |-> "4", nightpower |-> "4"]

CastEntries == {Cast1, Cast2}

SeqsUpTo(S, n) == UNION {[1..k -> S] : k \in 0..n}

Forecasts(n) ==
    {[province |-> "Beijing", city |-> "Beijing City", reporttime |-> "2025-01-01 11:00",
      casts |-> c] : c \in SeqsUpTo(CastEntries, n)}

SampleForecast == CHOOSE f \in Forecasts(1) : f.casts = <<Cast1>>

\* the answer to a request the provider rejects: neither "lives" nor "forecasts"
ErrorBody == [status |-> "0", info |-> "INVALID_USER_KEY", infocode |-> "10001"]

EmptyBody == [k \in {} |-> ""]

Payloads(nl, nc) ==
    {[status |-> "1", lives |-> l] : l \in SeqsUpTo(LiveEntries, nl)}
        \cup {[status |-> "1", forecasts |-> f] : f \in Forecasts(nc)}
        \cup {[status |-> "1", lives |-> l, forecasts |-> SampleForecast] : l \in SeqsUpTo(LiveEntries, nl)}
        \cup {ErrorBody, EmptyBody}

\* what one client.get of line 65 ends with
Failures == {"timeout", "network error", "status 500", "unparsable body"}

Outcomes(nl, nc) ==
    {[kind |-> "ok", body |-> b] : b \in Payloads(nl, nc)}
        \cup {[kind |-> k] : k \in Failures}

(***************************************************************************)
(* The weather gateway and the two weather tools.  A call of get_lives or  *)
(* get_forecast is a coroutine: it runs to the await of line 65, and when  *)
(* the request ends it runs from there to its return.                      *)
(***************************************************************************)
Slots == {"call 1", "call 2"}

AdCodes == {DistrictCode}

AMAP_API_KEY == "api_key of config.yaml"

\* AMAP_API_BASE.format(adccode=..., api_key=..., type=...): the query string's three parameters
AMAP_API_BASE(adccode, api_key, type) == [city |-> adccode, key |-> api_key, extensions |-> type]

NoUrl == [city |-> << >>, key |-> "", extensions |-> ""]

Dict(d) == [t |-> "dict", d |-> d]

\* make_amap_request, lines 64-69: the parsed body, or None for anything raised
make_amap_request(outcome) ==
    IF outcome.kind = "ok" THEN Dict(outcome.body) ELSE None

\* "not data" of lines 118 and 132: None and the empty dict are false
Falsy(data) == data = None \/ (data.t = "dict" /\ DOMAIN data.d = {})

\* A variant of lines 118-122 without the check of the request's result.
get_lives_ret_NoCheck(data) ==
    IF data = None THEN Raised("TypeError") ELSE format_weather_info(data.d)

\* get_lives from the await to the return, lines 116-122
get_lives_ret(data) ==
    IF Falsy(data)
    THEN Str(<<"Unable to fetch lives data for this city.">>)
    ELSE format_weather_info(data.d)

\* get_forecast from the await to the return, lines 130-136
get_forecast_ret(data) ==
    IF Falsy(data)
    THEN Str(<<"Unable to fetch forecast data for this city.">>)
    ELSE format_weather_info(data.d)

IdleCall ==
    [op |-> "none", pc |-> "idle", adccode |-> << >>, url |-> NoUrl, sent |-> 0,
     outcome |-> "none", data |-> None, ret |-> None]

\* get_lives up to the await of line 65: the url of line 115, then the one client.get
get_lives(i, adccode) ==
    /\ main = "serving"
    /\ calls[i].pc = "idle"
    /\ calls' = [calls EXCEPT ![i] =
                    [@ EXCEPT !.op = "get_lives", !.pc = "awaiting", !.adccode = adccode,
                              !.url = AMAP_API_BASE(adccode, AMAP_API_KEY, "base"),
                              !.sent = @ + 1]]
    /\ UNCHANGED <<main, df, pos, province, city, city_map, CITY_CODE_MAP, last>>

\* get_forecast up to the await of line 65: the url of line 129, then the one client.get
get_forecast(i, adccode) ==
    /\ main = "serving"
    /\ calls[i].pc = "idle"
    /\ calls' = [calls EXCEPT ![i] =
                    [@ EXCEPT !.op = "get_forecast", !.pc = "awaiting", !.adccode = adccode,
                              !.url = AMAP_API_BASE(adccode, AMAP_API_KEY, "base"),
                              !.sent = @ + 1]]
    /\ UNCHANGED <<main, df, pos, province, city, city_map, CITY_CODE_MAP, last>>

\* A variant that sends the request again when it failed.
Resume_Retry(i, outcome) ==
    /\ calls[i].pc = "awaiting"
    /\ LET data == make_amap_request(outcome)
       IN  IF data = None /\ calls[i].sent < 2
           THEN calls' = [calls EXCEPT ![i] = [@ EXCEPT !.sent = @ + 1]]
           ELSE calls' = [calls EXCEPT ![i] =
                    [@ EXCEPT !.pc = "done", !.outcome = outcome.kind, !.data = data,
                              !.ret = IF calls[i].op = "get_lives"
                                      THEN get_lives_ret(data) ELSE get_forecast_ret(data)]]
    /\ UNCHANGED <<main, df, pos, province, city, city_map, CITY_CODE_MAP, last>>

\* The request of call i ends with outcome, and the coroutine runs to its end:
\* make_amap_request returns (lines 66-69), then lines 118-122 or 132-136.
Resume(i, outcome) ==
    /\ calls[i].pc = "awaiting"
    /\ LET data == make_amap_request(outcome)
       IN  calls' = [calls EXCEPT ![i] =
                    [@ EXCEPT !.pc = "done", !.outcome = outcome.kind, !.data = data,
                              !.ret = IF calls[i].op = "get_lives"
                                      THEN get_lives_ret(data) ELSE get_forecast_ret(data)]]
    /\ UNCHANGED <<main, df, pos, province, city, city_map, CITY_CODE_MAP, last>>

(***************************************************************************)
(* Startup (lines 52-55, then mcp.run of line 198), the two resources and  *)
(* the prompt.                                                             *)
(***************************************************************************)
\* one iteration of the loop of line 27
BuildStep ==
    /\ main = "building"
    /\ pos <= Len(df)
    /\ LET st == LoopBody([province |-> province, city |-> city, city_map |-> city_map], df[pos])
       IN  /\ province' = st.province
           /\ city' = st.city
           /\ city_map' = st.city_map
    /\ pos' = pos + 1
    /\ UNCHANGED <<main, df, CITY_CODE_MAP, calls, last>>

\* the loop is over: city_code_data returns (line 42), line 52 binds CITY_CODE_MAP,
\* and the module runs on to mcp.run
FinishBuild ==
    /\ main = "building"
    /\ pos > Len(df)
    /\ CITY_CODE_MAP' = city_map
    /\ main' = "serving"
    /\ UNCHANGED <<df, pos, province, city, city_map, calls, last>>

\* A variant that stores the default of a missed lookup (dict.setdefault).
get_city_code_by_cityname_SetDefault(city_name) ==
    /\ main = "serving"
    /\ LET name == unquote(city_name)
       IN  /\ last' = [op |-> "get_city_code_by_cityname", arg |-> city_name,
                       ret |-> Str(Get(CITY_CODE_MAP, name, << >>))]
           /\ CITY_CODE_MAP' = IF name \in DOMAIN CITY_CODE_MAP
                               THEN CITY_CODE_MAP ELSE SetItem(CITY_CODE_MAP, name, << >>)
    /\ UNCHANGED <<main, df, pos, province, city, city_map, calls>>

\* A variant that looks the argument up as it came, without unquote.
get_city_code_by_cityname_NoUnquote(city_name) ==
    /\ main = "serving"
    /\ last' = [op |-> "get_city_code_by_cityname", arg |-> city_name,
                ret |-> Str(Get(CITY_CODE_MAP, city_name, << >>))]
    /\ UNCHANGED <<main, df, pos, province, city, city_map, CITY_CODE_MAP, calls>>

\* get_city_code_by_cityname, lines 146-149
get_city_code_by_cityname(city_name) ==
    /\ main = "serving"
    /\ last' = [op |-> "get_city_code_by_cityname", arg |-> city_name,
                ret |-> Str(Get(CITY_CODE_MAP, unquote(city_name), << >>))]
    /\ UNCHANGED <<main, df, pos, province, city, city_map, CITY_CODE_MAP, calls>>

\* get_city_code, lines 140-142
get_city_code ==
    /\ main = "serving"
    /\ last' = [op |-> "get_city_code", arg |-> << >>, ret |-> Dict(CITY_CODE_MAP)]
    /\ UNCHANGED <<main, df, pos, province, city, city_map, CITY_CODE_MAP, calls>>

\* the template of lines 155-192, one token
PromptTemplate == "city-identification instructions"

Queries == {<<"weather of G">>, << >>}

\* llm_prompt, lines 153-193
llm_prompt(query) ==
    /\ main = "serving"
    /\ last' = [op |-> "llm_prompt", arg |-> query, ret |-> Str(<<PromptTemplate>> \o query)]
    /\ UNCHANGED <<main, df, pos, province, city, city_map, CITY_CODE_MAP, calls>>

(***************************************************************************)
(* Specifications.                                                         *)
(***************************************************************************)
NoOp == [op |-> "none", arg |-> << >>, ret |-> None]

\* the module before line 52 runs, for a table
Startup(table) ==
    /\ main = "building"
    /\ df = table
    /\ pos = 2
    /\ province = LoopStart.province
    /\ city = LoopStart.city
    /\ city_map = LoopStart.city_map
    /\ CITY_CODE_MAP = EmptyMap
    /\ calls = [i \in Slots |-> IdleCall]
    /\ last = NoOp

\* the server at mcp.run, its index built from a table
Serving(table) ==
    LET st == LoopOver(LoopStart, Tail(table))
    IN  /\ main = "serving"
        /\ df = table
        /\ pos = Len(table) + 1
        /\ province = st.province
        /\ city = st.city
        /\ city_map = st.city_map
        /\ CITY_CODE_MAP = city_code_data(table)
        /\ calls = [i \in Slots |-> IdleCall]
        /\ last = NoOp

\* the whole server, on two tables and one outcome of each kind
SomeOutcomes ==
    {[kind |-> "ok", body |-> [status |-> "1", lives |-> <<Live1>>]],
     [kind |-> "ok", body |-> [status |-> "1", forecasts |-> SampleForecast]],
     [kind |-> "ok", body |-> ErrorBody],
     [kind |-> "timeout"]}

Init == \E table \in {SampleTable, OtherTable} : Startup(table)

Next ==
    \/ BuildStep
    \/ FinishBuild
    \/ \E city_name \in LookupArgs : get_city_code_by_cityname(city_name)
    \/ get_city_code
    \/ \E query \in Queries : llm_prompt(query)
    \/ \E i \in Slots, adccode \in AdCodes : get_lives(i, adccode)
    \/ \E i \in Slots, adccode \in AdCodes : get_forecast(i, adccode)
    \/ \E i \in Slots, outcome \in SomeOutcomes : Resume(i, outcome)

Spec == Init /\ [][Next]_vars

\* the index: the builder on every table of at most MaxRows rows, then the lookups
InitIndex == \E table \in Tables(MaxRows) : Startup(table)

NextIndex ==
    \/ BuildStep
    \/ FinishBuild
    \/ \E city_name \in LookupArgs : get_city_code_by_cityname(city_name)
    \/ get_city_code

SpecIndex == InitIndex /\ [][NextIndex]_vars

\* the weather tools: every payload of at most MaxLives and MaxCasts entries
InitWeather == Serving(SampleTable)

NextWeather ==
    \/ \E i \in Slots, adccode \in AdCodes : get_lives(i, adccode)
    \/ \E i \in Slots, adccode \in AdCodes : get_forecast(i, adccode)
    \/ \E i \in Slots, outcome \in Outcomes(MaxLives, MaxCasts) : Resume(i, outcome)

SpecWeather == InitWeather /\ [][NextWeather]_vars

\* client.get ends within its timeout of 30 seconds (line 65), and the event
\* loop then resumes the coroutine
FairWeather ==
    SpecWeather /\ \A i \in Slots : WF_vars(\E outcome \in Outcomes(MaxLives, MaxCasts) : Resume(i, outcome))

(***************************************************************************)
(* Properties of the index.                                                *)
(***************************************************************************)
EndsWith(s, suffix) ==
    /\ Len(s) >= Len(suffix)
    /\ SubSeq(s, Len(s) - Len(suffix) + 1, Len(s)) = suffix

IsTop(row) == EndsWith(row.ad_code, <<"0", "0", "0", "0">>)
IsSecond(row) == EndsWith(row.ad_code, <<"0", "0">>) /\ ~IsTop(row)
IsThird(row) == ~EndsWith(row.ad_code, <<"0", "0">>)

\* the records the builder is given: the rows of df from the second on
Records == 2..Len(df)

Largest(S) == CHOOSE x \in S : \A y \in S : y <= x

\* the nearest top-level record at or before record j (0: none)
NearestTop(j) ==
    LET tops == {k \in 2..j : IsTop(df[k])}
    IN  IF tops = {} THEN 0 ELSE Largest(tops)

TopName(j) == IF NearestTop(j) = 0 THEN << >> ELSE df[NearestTop(j)].name

\* the nearest second-level record before record j, whatever its province (0: none)
NearestSecondAnywhere(j) ==
    LET seconds == {k \in 2..(j - 1) : IsSecond(df[k])}
    IN  IF seconds = {} THEN 0 ELSE Largest(seconds)

\* the nearest second-level record before record j and after its top-level record (0: none)
NearestSecond(j) ==
    LET seconds == {k \in 2..(j - 1) : IsSecond(df[k]) /\ k > NearestTop(j)}
    IN  IF seconds = {} THEN 0 ELSE Largest(seconds)

NameAt(k) == IF k = 0 THEN << >> ELSE df[k].name

\* the composite name of record j as the claim words it
ClaimedKey(j) ==
    IF IsTop(df[j]) THEN df[j].name
    ELSE IF IsSecond(df[j]) THEN TopName(j) \o df[j].name
    ELSE TopName(j) \o NameAt(NearestSecondAnywhere(j)) \o df[j].name

\* the composite name of record j: the city is one of the record's own province
KeyOf(j) ==
    IF IsTop(df[j]) THEN df[j].name
    ELSE IF IsSecond(df[j]) THEN TopName(j) \o df[j].name
    ELSE TopName(j) \o NameAt(NearestSecond(j)) \o df[j].name

\* the records whose composite name is key
Producers(key) == {j \in Records : KeyOf(j) = key}

\* a table in top-down order: every record below the top level follows a top-level
\* record, and within a province no city follows a district that hangs on the
\* province itself
TopDownOrdered ==
    \A j \in Records :
        /\ IsTop(df[j]) \/ NearestTop(j) # 0
        /\ IsSecond(df[j]) =>
              \A k \in (NearestTop(j) + 1)..(j - 1) : ~(IsThird(df[k]) /\ NearestSecond(k) = 0)

\* C1 as stated: once the index is built from a top-down-ordered table, every
\* record's composite name (its own name for a top-level record, province+city
\* for a second-level one, nearest preceding top-level name + nearest preceding
\* second-level name + own name for a third-level one) is a key of the index and
\* maps to that record's code.
C1_EveryRecordKeepsItsCode ==
    (main = "serving" /\ TopDownOrdered) =>
        \A j \in Records :
            /\ ClaimedKey(j) \in DOMAIN CITY_CODE_MAP
            /\ CITY_CODE_MAP[ClaimedKey(j)] = df[j].ad_code

\* C1 amended: once the index is built, every record's composite name, with the
\* city taken from the record's own province (empty when no second-level record
\* lies between the province and the record), is a key of the index, and it maps
\* to the code of the last record with that composite name.
C1_EveryRecordKeyed ==
    main = "serving" =>
        \A j \in Records :
            /\ KeyOf(j) \in DOMAIN CITY_CODE_MAP
            /\ CITY_CODE_MAP[KeyOf(j)] = df[Largest(Producers(KeyOf(j)))].ad_code

\* C1 witness: an index built from a top-down-ordered table with records of the
\* three levels, two of them with one composite name and different codes, of
\* which the index holds the later one's.
C1_Witness ==
    /\ main = "serving"
    /\ TopDownOrdered
    /\ \E j \in Records : IsSecond(df[j])
    /\ \E j \in Records : IsThird(df[j]) /\ NearestTop(j) # 0
    /\ \E j \in Records, k \in Records :
          /\ j < k
          /\ KeyOf(j) = KeyOf(k)
          /\ df[j].ad_code # df[k].ad_code
          /\ CITY_CODE_MAP[KeyOf(j)] = df[k].ad_code

\* the composite name each lookup argument stands for, percent-decoded
DecodedName(arg) ==
    CASE arg = <<"%", "4", "7">> -> <<"G">>
      [] arg = <<"G", "%", "5", "7">> -> <<"G", "W">>
      [] arg = <<"%", "2", "5", "4", "7">> -> <<"%", "4", "7">>
      [] OTHER -> arg

\* C3: a lookup returns a string and never raises: the code of the last record
\* whose composite name is the looked-up (decoded) name, or the empty string when
\* no record has that composite name.
C3_LookupReturnsInsertedCode ==
    last.op = "get_city_code_by_cityname" =>
        LET name == DecodedName(last.arg)
        IN  /\ last.ret.t = "str"
            /\ IF Producers(name) = {}
               THEN last.ret.s = << >>
               ELSE last.ret.s = df[Largest(Producers(name))].ad_code

\* C3 witness: a lookup with a percent-encoded argument of a composite name that
\* two records with different codes produce, answered with the later code.
C3_Witness ==
    /\ last.op = "get_city_code_by_cityname"
    /\ last.arg = <<"G", "%", "5", "7">>
    /\ \E j \in Producers(<<"G", "W">>), k \in Producers(<<"G", "W">>) :
          /\ j < k
          /\ df[j].ad_code # df[k].ad_code
    /\ last.ret.s = df[Largest(Producers(<<"G", "W">>))].ad_code

\* the records the loop has processed
Processed == 2..(pos - 1)

\* C10: after every processed record the city accumulator is empty or the name
\* of a second-level record that came after the most recent top-level record
\* (the most recent such record), and a step on a third-level record with no
\* second-level record since its top-level record inserts province+name and no
\* other key.
C10_CityOfCurrentProvince ==
    /\ [](LET j == pos - 1
              c == IF j < 2 THEN 0 ELSE IF IsSecond(df[j]) THEN j ELSE NearestSecond(j)
          IN  /\ city = NameAt(c)
              /\ c # 0 => IsSecond(df[c]) /\ c > NearestTop(j))
    /\ [][(main = "building" /\ pos <= Len(df) /\ pos' = pos + 1
             /\ IsThird(df[pos]) /\ NearestSecond(pos) = 0)
          => /\ TopName(pos) \o df[pos].name \in DOMAIN city_map'
             /\ city_map'[TopName(pos) \o df[pos].name] = df[pos].ad_code
             /\ (DOMAIN city_map') \ (DOMAIN city_map) \subseteq {TopName(pos) \o df[pos].name}]_vars

\* C10 witness: the loop has just processed a third-level record that directly
\* follows the second province, after a city of the first province.
C10_Witness ==
    /\ pos = 6
    /\ IsTop(df[2]) /\ IsSecond(df[3]) /\ IsTop(df[4]) /\ IsThird(df[5])
    /\ df[3].name # << >>
    /\ city = << >>
    /\ df[4].name \o df[5].name \in DOMAIN city_map

(***************************************************************************)
(* Properties of the server as a whole.                                    *)
(***************************************************************************)
FacadeStarted ==
    \/ last.op # "none"
    \/ \E i \in Slots : calls[i].pc # "idle"

\* C9: no operation starts before the builder has finished, while the server
\* serves the index is the value the builder returned, and no step changes it.
C9_IndexNeverChanges ==
    /\ [](FacadeStarted => main = "serving")
    /\ [](main = "serving" => CITY_CODE_MAP = city_map)
    /\ [][main = "serving" => CITY_CODE_MAP' = CITY_CODE_MAP]_vars

\* C9 witness: a lookup that missed has returned while one weather query waits
\* for its request and another has completed.
C9_Witness ==
    /\ last.op = "get_city_code_by_cityname"
    /\ last.arg = <<"B">>
    /\ last.ret = Str(<< >>)
    /\ \E i \in Slots, j \in Slots : calls[i].pc = "awaiting" /\ calls[j].pc = "done"
    /\ CITY_CODE_MAP = city_code_data(df)

(***************************************************************************)
(* Properties of the weather tools.                                        *)
(***************************************************************************)
Done(i) == calls[i].pc = "done"

\* call i got a payload, and the payload has this key
Has(i, key) == calls[i].data.t = "dict" /\ key \in DOMAIN calls[i].data.d

\* C2: every request get_forecast has sent carries the FORECAST kind, extensions "all".
C2_ForecastRequestsAll ==
    \A i \in Slots :
        (calls[i].op = "get_forecast" /\ calls[i].sent > 0) => calls[i].url.extensions = "all"

\* C4: a query whose request failed, whatever the failure, got None from
\* make_amap_request and returned its fixed apology string.
C4_FailureGivesApology ==
    \A i \in Slots :
        (Done(i) /\ calls[i].outcome \in Failures) =>
            /\ calls[i].data = None
            /\ calls[i].op = "get_lives" =>
                  calls[i].ret = Str(<<"Unable to fetch lives data for this city.">>)
            /\ calls[i].op = "get_forecast" =>
                  calls[i].ret = Str(<<"Unable to fetch forecast data for this city.">>)

\* C4 witness: two queries of one tool, one timed out and one answered with
\* status 500, have returned the same apology.
C4_Witness ==
    \E i \in Slots, j \in Slots :
        /\ Done(i) /\ Done(j)
        /\ calls[i].op = "get_lives" /\ calls[j].op = "get_lives"
        /\ calls[i].outcome = "timeout" /\ calls[j].outcome = "status 500"
        /\ calls[i].ret = calls[j].ret
        /\ calls[i].ret.t = "str"

\* C5: a query that got a payload with "lives" or "forecasts" returned a text.
C5_AlwaysText ==
    \A i \in Slots :
        (Done(i) /\ (Has(i, "lives") \/ Has(i, "forecasts"))) => calls[i].ret.t = "str"

ForecastTokens ==
    {"---", "forecast reporttime:", "date:", "dayweather:", "nightweather:", "daytemp:",
     "nighttemp:", "daywind:", "nightwind:", "daypower:", "nightpower:"}

Tokens(s) == {s[n] : n \in DOMAIN s}

\* C6: a payload with a non-empty "lives" is reported from its first entry alone:
\* the report is the lives template of that entry, two payloads with the same
\* first entry give the same report whatever else they hold, and no part of the
\* forecast report is in it.
C6_FirstLiveOnly ==
    \A i \in Slots :
        (Done(i) /\ Has(i, "lives") /\ calls[i].data.d.lives # << >>) =>
            /\ calls[i].ret.t = "str"
            /\ calls[i].ret.s = Strip(LivesText(Head(calls[i].data.d.lives)))
            /\ Tokens(calls[i].ret.s) \cap ForecastTokens = {}
            /\ \A j \in Slots :
                  (Done(j) /\ Has(j, "lives") /\ calls[j].data.d.lives # << >>
                      /\ Head(calls[j].data.d.lives) = Head(calls[i].data.d.lives))
                  => calls[j].ret = calls[i].ret

\* C6 witness: a payload of one entry and a payload of that entry, a second
\* entry and a "forecasts" key have given the same report.
C6_Witness ==
    \E i \in Slots, j \in Slots :
        /\ Done(i) /\ Done(j)
        /\ Has(i, "lives") /\ calls[i].data.d.lives = <<Live1>> /\ ~Has(i, "forecasts")
        /\ Has(j, "lives") /\ calls[j].data.d.lives = <<Live1, Live2>> /\ Has(j, "forecasts")
        /\ calls[i].ret = calls[j].ret
        /\ calls[i].ret.t = "str"

\* the parts of a report between its separators
RECURSIVE Split(_, _)
Split(s, sep) ==
    IF \A n \in DOMAIN s : s[n] # sep THEN <<s>>
    ELSE LET n == CHOOSE m \in DOMAIN s : s[m] = sep /\ \A l \in 1..(m - 1) : s[l] # sep
         IN  <<SubSeq(s, 1, n - 1)>> \o Split(SubSeq(s, n + 1, Len(s)), sep)

\* C7: the report of a "forecasts" payload with N day entries is the header block
\* and N day-blocks joined by "---", the n-th day-block that of the n-th entry.
C7_OneBlockPerCast ==
    \A i \in Slots :
        (Done(i) /\ Has(i, "forecasts") /\ ~Has(i, "lives")) =>
            LET forecasts == calls[i].data.d.forecasts
                blocks == Split(calls[i].ret.s, "---")
            IN  /\ calls[i].ret.t = "str"
                /\ Len(blocks) = Len(forecasts.casts) + 1
                /\ Strip(blocks[1]) = Strip(ForecastHeader(forecasts))
                /\ \A n \in 1..Len(forecasts.casts) :
                      Strip(blocks[n + 1]) = Strip(CastText(forecasts.casts[n]))

\* C7 witness: a report of two different day entries, and one of none.
C7_Witness ==
    \E i \in Slots, j \in Slots :
        /\ Done(i) /\ Done(j)
        /\ Has(i, "forecasts") /\ ~Has(i, "lives")
        /\ calls[i].data.d.forecasts.casts = <<Cast2, Cast1>>
        /\ Len(Split(calls[i].ret.s, "---")) = 3
        /\ Has(j, "forecasts") /\ ~Has(j, "lives")
        /\ calls[j].data.d.forecasts.casts = << >>
        /\ Len(Split(calls[j].ret.s, "---")) = 1

\* C8 as stated: a completed query has sent exactly one request and has returned a result.
C8_OneRequestAndAResult ==
    \A i \in Slots : Done(i) => (calls[i].sent = 1 /\ calls[i].ret.t # "raise")

\* C8 amended: a query sends exactly one request, none after a failure, and once
\* its request has ended it completes: it returns, or it ends with the
\* AttributeError of format_weather_info when the payload it got is not empty and
\* has neither "lives" nor "forecasts".
C8_OneRequestThenCompletes ==
    /\ [](\A i \in Slots :
            /\ calls[i].sent = (IF calls[i].pc = "idle" THEN 0 ELSE 1)
            /\ (Done(i) /\ calls[i].ret.t = "raise") =>
                  /\ calls[i].ret.exc = "AttributeError"
                  /\ calls[i].data.t = "dict"
                  /\ DOMAIN calls[i].data.d # {}
                  /\ ~Has(i, "lives") /\ ~Has(i, "forecasts"))
    /\ \A i \in Slots : (calls[i].pc = "awaiting") ~> Done(i)

\* C8 witness: a query whose request failed has completed with one request sent,
\* and a query that got a payload without either key has ended with the fault.
C8_Witness ==
    \E i \in Slots, j \in Slots :
        /\ Done(i) /\ calls[i].outcome \in Failures /\ calls[i].sent = 1
        /\ Done(j) /\ calls[j].ret = Raised("AttributeError") /\ calls[j].sent = 1

====
